---------------------------- MODULE Spec2Model ----------------------------
(***************************************************************************)
(* A model of rpki-rs' URI value family (src/src/uri.rs) and of the        *)
(* publication protocol message envelope (src/src/publication/pubmsg.rs).  *)
(*                                                                         *)
(* Byte strings (Bytes, &[u8], &str of ASCII text) are sequences of byte   *)
(* values 0..255.  Offsets into a byte string are 0-based as in the source *)
(* (path_idx, split_to, advance); Slice converts to TLA+'s 1-based         *)
(* sequences.                                                              *)
(***************************************************************************)
EXTENDS Integers, Sequences, FiniteSets, TLC

VARIABLES
    cur,      \* the URI value the caller holds (NoVal before any is built)
    last,     \* the last URI operation: its name, receiver, argument, result
    wire,     \* the XML document handed to / produced by the envelope codec
    sent,     \* the Message that was encoded onto the wire (NoVal if none)
    decoded,  \* the outcome of Message::decode on the wire (NoVal if none)
    reenc     \* the re-encoding of the decoded message (NoVal if none)

vars == <<cur, last, wire, sent, decoded, reenc>>
uriVars == <<cur, last>>
msgVars == <<wire, sent, decoded, reenc>>

----------------------------------------------------------------------------
(* Bounds of the model.                                                    *)

\* longest path (the bytes after the scheme prefix and, for rsync, after
\* authority/module/) handed to the parsers
MaxPathLen == 3
\* longest unstructured remainder after a scheme prefix handed to the parsers
MaxRawLen == 3
\* longest byte string passed as an argument (a suffix to join, a path to new)
\* and longest path of the second operand of eq / relative_to
MaxArgLen == 2
\* join is not applied once the joined path would exceed this length
MaxJoinLen == 4
\* most nested elements below the root element of a document
MaxChildren == 2

----------------------------------------------------------------------------
(* Results, options and generic helpers.                                   *)

NoVal == [kind |-> "None"]
Ok(v) == [ok |-> TRUE, val |-> v]
Err(e) == [ok |-> FALSE, err |-> e]
Some(v) == [some |-> TRUE, val |-> v]
None == [some |-> FALSE]
\* the outcome of a failed assert! / an out-of-bounds index / advance
Panic == [ok |-> FALSE, err |-> "panic"]

SeqsUpTo(S, n) == UNION {[1..k -> S] : k \in 0..n}

\* s[from..to) with 0-based offsets, as a Rust slice
Slice(s, from, to) == SubSeq(s, from + 1, to)

----------------------------------------------------------------------------
(* Bytes and the helper functions of uri.rs.                               *)

Slash == 47
Dot == 46

to_ascii_lowercase(ch) == IF ch >= 65 /\ ch <= 90 THEN ch + 32 ELSE ch

eq_ignore_ascii_case(s, t) ==
    /\ Len(s) = Len(t)
    /\ \A i \in 1..Len(s) : to_ascii_lowercase(s[i]) = to_ascii_lowercase(t[i])

starts_with(s, prefix) ==
    Len(s) >= Len(prefix) /\ SubSeq(s, 1, Len(prefix)) = prefix

ends_with(s, suffix) ==
    Len(s) >= Len(suffix)
    /\ SubSeq(s, Len(s) - Len(suffix) + 1, Len(s)) = suffix

starts_with_ignore_case(s, expected) ==
    IF Len(s) >= Len(expected)
    THEN eq_ignore_ascii_case(SubSeq(s, 1, Len(expected)), expected)
    ELSE FALSE

\* SPACE CONTROL " # < > ? [ \ ] ^ ` { | } and everything from DEL up
is_uri_ascii(slice) ==
    \A i \in 1..Len(slice) :
        LET ch == slice[i] IN
        ch > 32 /\ ch # 34 /\ ch # 35 /\ ch # 60 /\ ch # 62
            /\ ch # 63 /\ ch # 91 /\ ch # 92 /\ ch # 93
            /\ ch # 94 /\ ch # 96 /\ ch # 123 /\ ch # 124
            /\ ch # 125 /\ ch < 127

\* the index (1-based) of the first sep in s, 0 if there is none
FirstIndex(s, sep) ==
    IF \E i \in 1..Len(s) : s[i] = sep
    THEN CHOOSE i \in 1..Len(s) : s[i] = sep /\ \A j \in 1..(i - 1) : s[j] # sep
    ELSE 0

\* slice::split(|ch| ch == sep): the items the iterator yields, in order
RECURSIVE Split(_, _)
Split(s, sep) ==
    LET i == FirstIndex(s, sep) IN
    IF i = 0 THEN <<s>>
    ELSE <<SubSeq(s, 1, i - 1)>> \o Split(SubSeq(s, i + 1, Len(s)), sep)

\* slice::splitn(n, |ch| ch == sep): at most n items, the last one unsplit
RECURSIVE SplitN(_, _, _)
SplitN(s, n, sep) ==
    LET i == FirstIndex(s, sep) IN
    IF n = 0 THEN <<>>
    ELSE IF n = 1 \/ i = 0 THEN <<s>>
    ELSE <<SubSeq(s, 1, i - 1)>> \o SplitN(SubSeq(s, i + 1, Len(s)), n - 1, sep)

\* Bytes::split_to(at): the bytes before at, and what remains
split_to(bytes, at) ==
    [head |-> Slice(bytes, 0, at), rest |-> Slice(bytes, at, Len(bytes))]

\* Bytes::advance(cnt), which panics when cnt > len: the caller tests that
\* before it takes the result
advance(bytes, cnt) == Slice(bytes, cnt, Len(bytes))

----------------------------------------------------------------------------
(* Scheme.                                                                 *)

PrefixHttps == <<104, 116, 116, 112, 115, 58, 47, 47>>   \* "https://"
PrefixRsync == <<114, 115, 121, 110, 99, 58, 47, 47>>    \* "rsync://"
PrefixIpns == <<105, 112, 110, 115, 47>>                 \* "ipns/"

Scheme_from_prefix(s) ==
    IF starts_with_ignore_case(s, PrefixHttps)
    THEN Ok([scheme |-> "Https", len |-> 8])
    ELSE IF starts_with_ignore_case(s, PrefixRsync)
    THEN Ok([scheme |-> "Rsync", len |-> 8])
    ELSE IF starts_with_ignore_case(s, PrefixIpns)
    THEN Ok([scheme |-> "Ipns", len |-> 5])
    ELSE Err("BadScheme")

\* the scheme and the bytes left after the prefix
Scheme_take(bytes) ==
    LET p == Scheme_from_prefix(bytes) IN
    IF p.ok
    THEN Ok([scheme |-> p.val.scheme, rest |-> advance(bytes, p.val.len)])
    ELSE p

----------------------------------------------------------------------------
(* RsyncModule and Rsync.                                                  *)

RsyncModule_new(authority, module) ==
    IF is_uri_ascii(authority) /\ is_uri_ascii(module)
    THEN Ok([kind |-> "RsyncModule", authority |-> authority,
             module |-> module])
    ELSE Panic

RsyncModule_eq(a, b) ==
    eq_ignore_ascii_case(a.authority, b.authority) /\ a.module = b.module

Rsync_new(module, path) == [kind |-> "Rsync", module |-> module, path |-> path]

RsyncModule_to_uri(module) == Rsync_new(module, <<>>)

\* the loop of check_path from items[i] on: how it ends, and how many items the
\* iterator has yielded by then
RECURSIVE check_path_scan(_, _)
check_path_scan(items, i) ==
    IF i > Len(items) THEN [stop |-> "end", taken |-> Len(items)]
    ELSE IF items[i] = <<>> THEN [stop |-> "break", taken |-> i]
    ELSE IF items[i] = <<Dot, Dot>> \/ items[i] = <<Dot>>
    THEN [stop |-> "dot", taken |-> i]
    ELSE check_path_scan(items, i + 1)

\* check_path that only knows ".." as a dot segment
Rsync_check_path_dotdot_only(path) ==
    LET items == Split(path, Slash)
        empties == {i \in 1..Len(items) : items[i] = <<>>}
        stop == IF empties = {} THEN Len(items) + 1
                ELSE CHOOSE i \in empties : \A j \in empties : i <= j
    IN  IF \E i \in 1..(stop - 1) : items[i] = <<Dot, Dot>>
        THEN Err("DotSegments")
        ELSE IF stop < Len(items) THEN Err("EmptySegments")
        ELSE Ok("unit")

Rsync_check_path(path) ==
    LET items == Split(path, Slash)
        scan == check_path_scan(items, 1)
    IN  IF scan.stop = "end" THEN Ok("unit")
        ELSE IF scan.stop = "dot" THEN Err("DotSegments")
        ELSE IF scan.taken < Len(items) THEN Err("EmptySegments")
        ELSE Ok("unit")

\* a from_bytes that takes a missing second '/' for an empty path
Rsync_from_bytes_one_slash(input) ==
    IF ~is_uri_ascii(input) THEN Err("NotAscii")
    ELSE LET taken == Scheme_take(input) IN
    IF ~(taken.ok /\ taken.val.scheme = "Rsync") THEN Err("BadScheme")
    ELSE LET bytes0 == taken.val.rest
             parts == SplitN(bytes0, 3, Slash)
         IN
    IF Len(parts) < 2 THEN Err("BadUri")
    ELSE LET path == IF Len(parts) < 3 THEN <<>> ELSE parts[3]
             checked == Rsync_check_path(path)
             m == RsyncModule_new(parts[1], parts[2])
         IN
    IF ~checked.ok THEN checked
    ELSE IF ~m.ok THEN m
    ELSE Ok(Rsync_new(m.val, path))

Rsync_from_bytes(input) ==
    IF ~is_uri_ascii(input) THEN Err("NotAscii")
    ELSE LET taken == Scheme_take(input) IN
    IF ~(taken.ok /\ taken.val.scheme = "Rsync") THEN Err("BadScheme")
    ELSE LET bytes0 == taken.val.rest
             parts == SplitN(bytes0, 3, Slash)
         IN
    IF Len(parts) < 1 THEN Err("BadUri")
    ELSE IF Len(parts) < 2 THEN Err("BadUri")
    ELSE LET authority == split_to(bytes0, Len(parts[1]))
             bytes1 == advance(authority.rest, 1)
             module == split_to(bytes1, Len(parts[2]))
             bytes2 == module.rest
         IN
    IF Len(authority.rest) < 1 \/ Len(bytes1) < Len(parts[2]) THEN Panic
    ELSE IF bytes2 = <<>> THEN Err("BadUri")
    ELSE LET path == advance(bytes2, 1)
             checked == Rsync_check_path(path)
             m == RsyncModule_new(authority.head, module.head)
         IN
    IF ~checked.ok THEN checked
    ELSE IF ~m.ok THEN m
    ELSE Ok(Rsync_new(m.val, path))

\* a parent that leaves the '/' before the removed segment in place
Rsync_parent_keeps_slash(self) ==
    LET items == Split(self.path, Slash)
        tail == Len(items[Len(items)])
    IN  IF tail = 0 THEN None
        ELSE Some([self EXCEPT
                    !.path = Slice(self.path, 0, Len(self.path) - tail)])

\* Rsync::parent
Rsync_parent(self) ==
    LET items == Split(self.path, Slash)
        tail == Len(items[Len(items)])       \* rsplit(..).next().unwrap().len()
    IN  IF tail = 0 THEN None
        ELSE IF tail = Len(self.path)
        THEN Some([self EXCEPT !.path = <<>>])
        ELSE Some([self EXCEPT
                    !.path = Slice(self.path, 0, Len(self.path) - tail - 1)])

\* Rsync::join
Rsync_join(self, path) ==
    IF ~is_uri_ascii(path) THEN Panic
    ELSE LET res0 == IF self.path # <<>>
                     THEN self.path \o (IF ~ends_with(self.path, <<Slash>>)
                                        THEN <<Slash>> ELSE <<>>)
                     ELSE <<>>
         IN Ok(Rsync_new(self.module, res0 \o path))

\* relative_to that does not look at the module
Rsync_relative_to_any_module(self, other) ==
    IF starts_with(self.path, other.path)
    THEN Some(Slice(self.path, Len(other.path), Len(self.path)))
    ELSE None

\* Rsync::relative_to
Rsync_relative_to(self, other) ==
    IF RsyncModule_eq(self.module, other.module)
    THEN IF starts_with(self.path, other.path)
         THEN Some(Slice(self.path, Len(other.path), Len(self.path)))
         ELSE None
    ELSE None

\* #[derive(PartialEq)] for Rsync
Rsync_eq(a, b) == RsyncModule_eq(a.module, b.module) /\ a.path = b.path

\* What a value feeds to the hasher: <<"u8", b>> for a single byte written,
\* <<"len", n>> for the length prefix a slice writes before its bytes.
HashU8(s) == [i \in 1..Len(s) |-> <<"u8", s[i]>>]
HashLower(s) == [i \in 1..Len(s) |-> <<"u8", to_ascii_lowercase(s[i])>>]
HashSlice(s) == <<(<<"len", Len(s)>>)>> \o HashU8(s)

RsyncModule_hash(self) == HashLower(self.authority) \o HashSlice(self.module)

\* #[derive(Hash)] for Rsync
Rsync_hash(self) == RsyncModule_hash(self.module) \o HashSlice(self.path)

\* impl Display for RsyncModule: "rsync://{authority}/{module}/"
RsyncModule_fmt(self) ==
    PrefixRsync \o self.authority \o <<Slash>> \o self.module \o <<Slash>>

\* impl Display for Rsync
Rsync_fmt(self) ==
    RsyncModule_fmt(self.module) \o (IF self.path # <<>> THEN self.path ELSE <<>>)

----------------------------------------------------------------------------
(* Https.                                                                  *)

\* a from_bytes that looks at the scheme before the ASCII check
Https_from_bytes_scheme_first(bytes) ==
    LET p == Scheme_from_prefix(bytes) IN
    IF ~p.ok THEN p
    ELSE IF p.val.scheme # "Https" THEN Err("BadScheme")
    ELSE IF ~is_uri_ascii(bytes) THEN Err("NotAscii")
    ELSE LET start == p.val.len
             found == {idx \in start..(Len(bytes) - 1) : bytes[idx + 1] = Slash}
             path_idx == IF found # {}
                         THEN CHOOSE idx \in found : \A j \in found : idx <= j
                         ELSE Len(bytes)
         IN Ok([kind |-> "Https", uri |-> bytes, path_idx |-> path_idx])

Https_from_bytes(bytes) ==
    IF ~is_uri_ascii(bytes) THEN Err("NotAscii")
    ELSE LET p == Scheme_from_prefix(bytes) IN
    IF ~p.ok THEN p
    ELSE IF p.val.scheme # "Https" THEN Err("BadScheme")
    ELSE LET start == p.val.len
             found == {idx \in start..(Len(bytes) - 1) : bytes[idx + 1] = Slash}
             path_idx == IF found # {}
                         THEN CHOOSE idx \in found : \A j \in found : idx <= j
                         ELSE Len(bytes)
         IN Ok([kind |-> "Https", uri |-> bytes, path_idx |-> path_idx])

\* Https::path
Https_path(self) == Slice(self.uri, self.path_idx, Len(self.uri))

\* Https::join
Https_join(self, path) ==
    IF ~is_uri_ascii(path) THEN Panic
    ELSE LET sep == IF Https_path(self) # <<>>
                       /\ ~ends_with(Https_path(self), <<Slash>>)
                    THEN <<Slash>> ELSE <<>>
         IN Ok([kind |-> "Https", uri |-> self.uri \o sep \o path,
                path_idx |-> self.path_idx])

\* an eq that ignores case in the path as well
Https_eq_ignore_case(self, other) ==
    /\ self.path_idx = other.path_idx
    /\ eq_ignore_ascii_case(self.uri, other.uri)

\* impl PartialEq for Https
Https_eq(self, other) ==
    /\ self.path_idx = other.path_idx
    /\ eq_ignore_ascii_case(Slice(self.uri, 0, self.path_idx),
                            Slice(other.uri, 0, other.path_idx))
    /\ Slice(self.uri, self.path_idx, Len(self.uri))
         = Slice(other.uri, self.path_idx, Len(other.uri))

\* impl Hash for Https
Https_hash(self) ==
    HashLower(Slice(self.uri, 0, self.path_idx))
        \o HashSlice(Slice(self.uri, self.path_idx, Len(self.uri)))

\* impl Display for Https
Https_fmt(self) == self.uri

----------------------------------------------------------------------------
(* Ipns.                                                                   *)

Ipns_from_bytes(bytes) ==
    IF ~is_uri_ascii(bytes) THEN Err("NotAscii")
    ELSE LET p == Scheme_from_prefix(bytes) IN
    IF ~p.ok THEN p
    ELSE IF p.val.scheme # "Ipns" THEN Err("BadScheme")
    ELSE Ok([kind |-> "Ipns", uri |-> bytes])

\* Ipns::get_ta_publish_key: parts[1] of the text split at '/', a panic when
\* the index is out of bounds
Ipns_get_ta_publish_key(self) ==
    LET parts == Split(self.uri, Slash) IN
    IF Len(parts) < 2 THEN Panic ELSE Ok(parts[2])

\* Ipns::get_repo_publish_key: parts[2]
Ipns_get_repo_publish_key(self) ==
    LET parts == Split(self.uri, Slash) IN
    IF Len(parts) < 3 THEN Panic ELSE Ok(parts[3])

\* PathBuf::from(base).join(path) on a Unix target: an absolute path replaces
\* the base, any other path is appended behind a '/' unless the base is empty
\* or ends with one
PathBuf_join(base, path) ==
    IF path # <<>> /\ path[1] = Slash THEN path
    ELSE base \o (IF base # <<>> /\ base[Len(base)] # Slash
                  THEN <<Slash>> ELSE <<>>) \o path

\* Rsync::to_ipns_ta_path
Rsync_to_ipns_ta_path(self, uri_ipns) ==
    LET key == Ipns_get_ta_publish_key(uri_ipns) IN
    IF ~key.ok THEN key ELSE Ok(PathBuf_join(key.val, self.path))

\* Rsync::to_ipns_repo_path
Rsync_to_ipns_repo_path(self, uri_ipns) ==
    LET key == Ipns_get_repo_publish_key(uri_ipns) IN
    IF ~key.ok THEN key ELSE Ok(PathBuf_join(key.val, self.path))

\* impl PartialEq for Ipns
Ipns_eq(self, other) == eq_ignore_ascii_case(self.uri, other.uri)

\* impl Hash for Ipns
Ipns_hash(self) == HashLower(self.uri) \o HashSlice(self.uri)

\* impl Display for Ipns
Ipns_fmt(self) == self.uri

----------------------------------------------------------------------------
(* The operations every URI kind has, by kind.                             *)

Uri_eq(a, b) ==
    CASE a.kind = "Rsync" -> Rsync_eq(a, b)
      [] a.kind = "RsyncModule" -> RsyncModule_eq(a, b)
      [] a.kind = "Https" -> Https_eq(a, b)
      [] a.kind = "Ipns" -> Ipns_eq(a, b)

Uri_hash(a) ==
    CASE a.kind = "Rsync" -> Rsync_hash(a)
      [] a.kind = "RsyncModule" -> RsyncModule_hash(a)
      [] a.kind = "Https" -> Https_hash(a)
      [] a.kind = "Ipns" -> Ipns_hash(a)

\* to_string(): the Display output
Uri_to_string(a) ==
    CASE a.kind = "Rsync" -> Rsync_fmt(a)
      [] a.kind = "Https" -> Https_fmt(a)
      [] a.kind = "Ipns" -> Ipns_fmt(a)

\* FromStr::from_str of the kind
Uri_from_str(kind, s) ==
    CASE kind = "Rsync" -> Rsync_from_bytes(s)
      [] kind = "Https" -> Https_from_bytes(s)
      [] kind = "Ipns" -> Ipns_from_bytes(s)

----------------------------------------------------------------------------
(* Inputs.                                                                 *)

Space == 32
PathAlphabet == {Slash, Dot, 97}          \* / . a
RawAlphabet == {Slash, 97, Space}         \* / a SPACE
CaseAlphabet == {Slash, 97, 65}           \* / a A
ArgAlphabet == {Slash, 97}                \* / a

Paths == SeqsUpTo(PathAlphabet, MaxPathLen)

\* "rsync://" in two spellings
RsyncPrefixes == {PrefixRsync, <<82, 83, 121, 110, 99, 58, 47, 47>>}
\* "https://" in two spellings
HttpsPrefixes == {PrefixHttps, <<104, 84, 84, 112, 115, 58, 47, 47>>}
\* "ipns/" in two spellings
IpnsPrefixes == {PrefixIpns, <<73, 80, 110, 115, 47>>}
\* "a/m/", "A/m/", "a/n/"
RsyncHeads == {<<97, 47, 109, 47>>, <<65, 47, 109, 47>>, <<97, 47, 110, 47>>}
\* "rsync:/" is no scheme prefix
AnyPrefixes ==
    {PrefixRsync, PrefixHttps, PrefixIpns, <<114, 115, 121, 110, 99, 58, 47>>}

\* "rsync://host/module/"
TestBase ==
    PrefixRsync \o <<104, 111, 115, 116, 47, 109, 111, 100, 117, 108, 101, 47>>
\* the paths of tests::rsync_check_uri
TestPaths == {
    <<102, 111, 111, 47, 98, 97, 114>>,                    \* foo/bar
    <<102, 111, 111, 47, 98, 97, 114, 47>>,                \* foo/bar/
    <<102, 111, 111, 47, 46, 46, 47, 98, 97, 114, 47>>,    \* foo/../bar/
    <<102, 111, 111, 47, 46, 47, 98, 97, 114, 47>>,        \* foo/./bar/
    <<102, 111, 111, 47, 98, 97, 114, 47, 46, 46>>,        \* foo/bar/..
    <<102, 111, 111, 47, 98, 97, 114, 47, 46, 46, 47>>,    \* foo/bar/../
    <<102, 111, 111, 47, 47, 98, 97, 114, 47>>,            \* foo//bar/
    <<47, 102, 111, 111, 47, 98, 97, 114, 47>> }           \* /foo/bar/

Malformed == {p \o t : p \in AnyPrefixes, t \in SeqsUpTo(RawAlphabet, MaxRawLen)}

\* well-prefixed rsync inputs whose path ends in a byte that is not ASCII-safe
RsyncNotAscii == {PrefixRsync \o h \o t \o <<Space>> : h \in RsyncHeads, t \in Paths}

RsyncInputs ==
    {p \o h \o t : p \in RsyncPrefixes, h \in RsyncHeads, t \in Paths}
    \cup {TestBase \o t : t \in TestPaths}
    \cup RsyncNotAscii
    \cup Malformed

HttpsInputs ==
    {p \o t : p \in HttpsPrefixes, t \in SeqsUpTo(CaseAlphabet, MaxPathLen)}
    \cup Malformed

IpnsInputs ==
    {p \o t : p \in IpnsPrefixes, t \in SeqsUpTo(CaseAlphabet, MaxPathLen)}
    \cup Malformed

\* authority and module handed to RsyncModule::new: a, A, a/b, SPACE; m, n, ""
ModuleAuthorities == {<<97>>, <<65>>, <<97, 47, 98>>, <<Space>>}
ModuleNames == {<<109>>, <<110>>, <<>>}

\* byte strings handed to Rsync::new and to join
Args == SeqsUpTo(PathAlphabet, MaxArgLen) \cup {<<Space>>}

OkValues(results) == {r.val : r \in {x \in results : x.ok}}

\* second operands of eq and relative_to: values the parsers return
RsyncOthers ==
    OkValues({Rsync_from_bytes(PrefixRsync \o h \o t) :
                h \in RsyncHeads, t \in SeqsUpTo(ArgAlphabet, MaxArgLen)})
HttpsOthers ==
    OkValues({Https_from_bytes(p \o t) :
                p \in HttpsPrefixes, t \in SeqsUpTo(CaseAlphabet, MaxArgLen)})
IpnsOthers ==
    OkValues({Ipns_from_bytes(p \o t) :
                p \in IpnsPrefixes, t \in SeqsUpTo(CaseAlphabet, MaxArgLen)})
ModuleOthers == {o.module : o \in RsyncOthers}

\* "ipns/tal-key/repo-key"
TestIpns ==
    PrefixIpns \o <<116, 97, 108, 45, 107, 101, 121, 47,
                    114, 101, 112, 111, 45, 107, 101, 121>>
\* the Ipns values handed to to_ipns_ta_path and to_ipns_repo_path: the one of
\* tests::rsync_to_ipns, and "ipns/" followed by a/A, a/A/a, /a, a/, a and ""
IpnsKeyTexts ==
    {TestIpns} \cup
    {PrefixIpns \o t : t \in {<<97, 47, 65>>, <<97, 47, 65, 47, 97>>,
                               <<47, 97>>, <<97, 47>>, <<97>>, <<>>}}
IpnsKeyHolders == OkValues({Ipns_from_bytes(t) : t \in IpnsKeyTexts})

Others(kind) ==
    CASE kind = "Rsync" -> RsyncOthers
      [] kind = "RsyncModule" -> ModuleOthers
      [] kind = "Https" -> HttpsOthers
      [] kind = "Ipns" -> IpnsOthers
      [] OTHER -> {}

----------------------------------------------------------------------------
(* The URI operations as actions.  A constructor does not read the value   *)
(* the caller holds, so constructors are taken from the initial state.  A  *)
(* method that borrows the value and returns a result (eq, hash,           *)
(* relative_to, to_string) leaves the value as it is: the state after it   *)
(* records the result, and the operations on the value continue from the   *)
(* state before it.                                                        *)

Op(name, on, arg, ret) == [op |-> name, on |-> on, arg |-> arg, ret |-> ret]

\* the value the caller holds after an operation: none after an error or a
\* panic
ValueOf(r) == IF r.ok THEN r.val ELSE NoVal

Fresh == cur = NoVal /\ last.op = "none"

Observations ==
    {"Rsync::relative_to", "eq", "hash", "to_string", "from_str",
     "Rsync::to_ipns_ta_path", "Rsync::to_ipns_repo_path",
     "Ipns::get_ta_publish_key", "Ipns::get_repo_publish_key"}

Holding(kind) == cur.kind = kind /\ last.op \notin Observations

RsyncFromBytes ==
    /\ Fresh
    /\ \E input \in RsyncInputs :
        LET r == Rsync_from_bytes(input) IN
        /\ cur' = ValueOf(r)
        /\ last' = Op("Rsync::from_bytes", NoVal, input, r)
    /\ UNCHANGED msgVars

HttpsFromBytes ==
    /\ Fresh
    /\ \E input \in HttpsInputs :
        LET r == Https_from_bytes(input) IN
        /\ cur' = ValueOf(r)
        /\ last' = Op("Https::from_bytes", NoVal, input, r)
    /\ UNCHANGED msgVars

IpnsFromBytes ==
    /\ Fresh
    /\ \E input \in IpnsInputs :
        LET r == Ipns_from_bytes(input) IN
        /\ cur' = ValueOf(r)
        /\ last' = Op("Ipns::from_bytes", NoVal, input, r)
    /\ UNCHANGED msgVars

RsyncModuleNew ==
    /\ Fresh
    /\ \E authority \in ModuleAuthorities, module \in ModuleNames :
        LET r == RsyncModule_new(authority, module) IN
        /\ cur' = ValueOf(r)
        /\ last' = Op("RsyncModule::new", NoVal, <<authority, module>>, r)
    /\ UNCHANGED msgVars

RsyncNew ==
    /\ Holding("RsyncModule")
    /\ \E path \in Args :
        /\ cur' = Rsync_new(cur, path)
        /\ last' = Op("Rsync::new", cur, path, Rsync_new(cur, path))
    /\ UNCHANGED msgVars

RsyncModuleToUri ==
    /\ Holding("RsyncModule")
    /\ cur' = RsyncModule_to_uri(cur)
    /\ last' = Op("RsyncModule::to_uri", cur, NoVal, RsyncModule_to_uri(cur))
    /\ UNCHANGED msgVars

RsyncJoin ==
    /\ Holding("Rsync")
    /\ \E path \in Args :
        /\ Len(cur.path) + 1 + Len(path) <= MaxJoinLen
        /\ LET r == Rsync_join(cur, path) IN
            /\ cur' = ValueOf(r)
            /\ last' = Op("Rsync::join", cur, path, r)
    /\ UNCHANGED msgVars

RsyncParent ==
    /\ Holding("Rsync")
    /\ LET r == Rsync_parent(cur) IN
        /\ cur' = IF r.some THEN r.val ELSE cur
        /\ last' = Op("Rsync::parent", cur, NoVal, r)
    /\ UNCHANGED msgVars

RsyncRelativeTo ==
    /\ Holding("Rsync")
    /\ \E other \in RsyncOthers :
        last' = Op("Rsync::relative_to", cur, other,
                   Rsync_relative_to(cur, other))
    /\ UNCHANGED <<cur, msgVars>>

RsyncToIpnsTaPath ==
    /\ Holding("Rsync")
    /\ \E uri_ipns \in IpnsKeyHolders :
        last' = Op("Rsync::to_ipns_ta_path", cur, uri_ipns,
                   Rsync_to_ipns_ta_path(cur, uri_ipns))
    /\ UNCHANGED <<cur, msgVars>>

RsyncToIpnsRepoPath ==
    /\ Holding("Rsync")
    /\ \E uri_ipns \in IpnsKeyHolders :
        last' = Op("Rsync::to_ipns_repo_path", cur, uri_ipns,
                   Rsync_to_ipns_repo_path(cur, uri_ipns))
    /\ UNCHANGED <<cur, msgVars>>

IpnsGetTaPublishKey ==
    /\ Holding("Ipns")
    /\ last' = Op("Ipns::get_ta_publish_key", cur, NoVal,
                  Ipns_get_ta_publish_key(cur))
    /\ UNCHANGED <<cur, msgVars>>

IpnsGetRepoPublishKey ==
    /\ Holding("Ipns")
    /\ last' = Op("Ipns::get_repo_publish_key", cur, NoVal,
                  Ipns_get_repo_publish_key(cur))
    /\ UNCHANGED <<cur, msgVars>>

HttpsJoin ==
    /\ Holding("Https")
    /\ \E path \in Args :
        /\ Len(cur.uri) - 8 + 1 + Len(path) <= MaxJoinLen
        /\ LET r == Https_join(cur, path) IN
            /\ cur' = ValueOf(r)
            /\ last' = Op("Https::join", cur, path, r)
    /\ UNCHANGED msgVars

Eq ==
    /\ cur.kind # "None" /\ last.op \notin Observations
    /\ \E other \in Others(cur.kind) :
        last' = Op("eq", cur, other, Uri_eq(cur, other))
    /\ UNCHANGED <<cur, msgVars>>

Hash ==
    /\ cur.kind # "None" /\ last.op \notin Observations
    /\ last' = Op("hash", cur, NoVal, Uri_hash(cur))
    /\ UNCHANGED <<cur, msgVars>>

Display ==
    /\ cur.kind \in {"Rsync", "Https", "Ipns"} /\ last.op \notin Observations
    /\ last' = Op("to_string", cur, NoVal, Uri_to_string(cur))
    /\ UNCHANGED <<cur, msgVars>>

\* from_str on the text to_string returned (serde's round trip)
FromStr ==
    /\ last.op = "to_string"
    /\ last' = Op("from_str", cur, last.ret, Uri_from_str(cur.kind, last.ret))
    /\ UNCHANGED <<cur, msgVars>>

Init ==
    /\ cur = NoVal
    /\ last = Op("none", NoVal, NoVal, NoVal)
    /\ wire = NoVal
    /\ sent = NoVal
    /\ decoded = NoVal
    /\ reenc = NoVal

UriNext ==
    \/ RsyncFromBytes
    \/ HttpsFromBytes
    \/ IpnsFromBytes
    \/ RsyncModuleNew
    \/ RsyncNew
    \/ RsyncModuleToUri
    \/ RsyncJoin
    \/ RsyncParent
    \/ RsyncRelativeTo
    \/ RsyncToIpnsTaPath
    \/ RsyncToIpnsRepoPath
    \/ IpnsGetTaPublishKey
    \/ IpnsGetRepoPublishKey
    \/ HttpsJoin
    \/ Eq
    \/ Hash
    \/ Display
    \/ FromStr

Spec == Init /\ [][UriNext]_vars

----------------------------------------------------------------------------
(* The publication message envelope (pubmsg.rs).                           *)
(*                                                                         *)
(* A document is its root element: the tag, the attributes as written, in  *)
(* order, as <<name, value>> pairs, and the tags of the nested elements in *)
(* document order.  The XML reader and writer and the payload codecs are   *)
(* collaborators of the envelope; they are modelled by their contract.     *)

VERSION == "4"
NS == "http://www.hactrn.net/uris/rpki/publication-spec/"

Document(root, attrs, children) ==
    [root |-> root, attrs |-> attrs, children |-> children]

\* the reader's view of the attributes: a namespace declaration is none
XmlReader_attributes(doc) ==
    SelectSeq(doc.attrs, LAMBDA a : a[1] # "xmlns")

Remove(s, i) == SubSeq(s, 1, i - 1) \o SubSeq(s, i + 1, Len(s))

\* Attributes::take_req(name): the value, and the attributes left
Attributes_take_req(a, name) ==
    IF \E i \in 1..Len(a) : a[i][1] = name
    THEN LET i == CHOOSE i \in 1..Len(a) : a[i][1] = name
         IN Ok([value |-> a[i][2], rest |-> Remove(a, i)])
    ELSE Err("XmlAttributesError")

\* Attributes::exhausted
Attributes_exhausted(a) ==
    IF a = <<>> THEN Ok("unit") ELSE Err("XmlAttributesError")

\* XmlReader::next_start_name on the nested elements not yet consumed
XmlReader_next_start_name(r) == IF r = <<>> THEN None ELSE Some(r[1])

\* the element tags a payload is made of, and whether it holds several
PayloadTags(type) ==
    CASE type = "ListQuery" -> {"list"}
      [] type = "PublishQuery" -> {"publish", "withdraw"}
      [] type = "SuccessReply" -> {"success"}
      [] type = "ListReply" -> {"list"}
      [] type = "ErrorReply" -> {"report_error"}
PayloadRepeats(type) == type \in {"PublishQuery", "ListReply", "ErrorReply"}

\* <payload>::decode(r): consumes the elements of the payload; the payload
\* and the nested elements left
Payload_decode(type, r) ==
    LET fits == {n \in 0..Len(r) :
                    /\ \A i \in 1..n : r[i] \in PayloadTags(type)
                    /\ PayloadRepeats(type) \/ n <= 1}
        n == CHOOSE n \in fits : \A k \in fits : k <= n
    IN  [payload |-> [type |-> type, elements |-> SubSeq(r, 1, n)],
         rest |-> SubSeq(r, n + 1, Len(r))]

\* <payload>::encode_vec(w): the elements written
Payload_encode_vec(payload) == payload.elements

\* the outcome of a decode step: the result, the payload decoder it invoked
\* ("none" if none), the number of nested start tags it looked at, and the
\* nested elements left
Step(result, decoder, read, rest) ==
    [result |-> result, decoder |-> decoder, read |-> read, rest |-> rest]

Dispatch(variant, type, r) ==
    LET d == Payload_decode(type, r)
    IN Step(Ok([variant |-> variant, payload |-> d.payload]), type, 1, d.rest)

\* a QueryMessage::decode without the "withdraw" arm
QueryMessage_decode_no_withdraw(r) ==
    LET name == XmlReader_next_start_name(r) IN
    IF name = Some("list") THEN Dispatch("ListQuery", "ListQuery", r)
    ELSE IF name = Some("publish")
    THEN Dispatch("PublishQuery", "PublishQuery", r)
    ELSE Step(Err("ExpectedStart"), "none", 1, r)

\* QueryMessage::decode
QueryMessage_decode(r) ==
    LET name == XmlReader_next_start_name(r) IN
    IF name = Some("list") THEN Dispatch("ListQuery", "ListQuery", r)
    ELSE IF name = Some("publish") \/ name = Some("withdraw")
    THEN Dispatch("PublishQuery", "PublishQuery", r)
    ELSE Step(Err("ExpectedStart"), "none", 1, r)

\* ReplyMessage::decode
ReplyMessage_decode(r) ==
    LET name == XmlReader_next_start_name(r) IN
    IF name = Some("success") THEN Dispatch("SuccessReply", "SuccessReply", r)
    ELSE IF name = Some("list") THEN Dispatch("ListReply", "ListReply", r)
    ELSE IF name = Some("report_error")
    THEN Dispatch("ErrorReply", "ErrorReply", r)
    ELSE Step(Err("ExpectedStart"), "none", 1, r)

\* the attribute part that asks for the type before it checks the version
Message_decode_attributes_type_first(a) ==
    LET msg_type == Attributes_take_req(a, "type") IN
    IF ~msg_type.ok THEN msg_type
    ELSE LET version == Attributes_take_req(msg_type.val.rest, "version") IN
    IF ~version.ok THEN version
    ELSE IF version.val.value # VERSION THEN Err("InvalidVersion")
    ELSE LET exhausted == Attributes_exhausted(version.val.rest) IN
    IF ~exhausted.ok THEN exhausted
    ELSE Ok(msg_type.val.value)

\* the attribute part without the call of exhausted()
Message_decode_attributes_not_exhausted(a) ==
    LET version == Attributes_take_req(a, "version") IN
    IF ~version.ok THEN version
    ELSE IF version.val.value # VERSION THEN Err("InvalidVersion")
    ELSE LET msg_type == Attributes_take_req(version.val.rest, "type") IN
    IF ~msg_type.ok THEN msg_type
    ELSE Ok(msg_type.val.value)

\* Message::decode, the attributes of the root element: the message type
Message_decode_attributes(a) ==
    LET version == Attributes_take_req(a, "version") IN
    IF ~version.ok THEN version
    ELSE IF version.val.value # VERSION THEN Err("InvalidVersion")
    ELSE LET msg_type == Attributes_take_req(version.val.rest, "type") IN
    IF ~msg_type.ok THEN msg_type
    ELSE LET exhausted == Attributes_exhausted(msg_type.val.rest) IN
    IF ~exhausted.ok THEN exhausted
    ELSE Ok(msg_type.val.value)

Wrap(variant, step) ==
    IF step.result.ok
    THEN [step EXCEPT !.result =
            Ok([variant |-> variant, inner |-> step.result.val])]
    ELSE step

\* a dispatch on the type that takes every type but "reply" for a query
Message_decode_type_default_query(msg_type, r) ==
    IF msg_type = "reply" THEN Wrap("ReplyMessage", ReplyMessage_decode(r))
    ELSE Wrap("QueryMessage", QueryMessage_decode(r))

\* Message::decode, the match on the message type
Message_decode_type(msg_type, r) ==
    IF msg_type = "query" THEN Wrap("QueryMessage", QueryMessage_decode(r))
    ELSE IF msg_type = "reply" THEN Wrap("ReplyMessage", ReplyMessage_decode(r))
    ELSE Step(Err("UnknownMessageType"), "none", 0, r)

\* XmlReader::take_named_element, before the closure: the root element has
\* the name
XmlReader_take_named_element(doc, name) ==
    IF doc.root = name THEN Ok("unit") ELSE Err("XmlReadError")

\* XmlReader::take_named_element, after the closure: the element ends where
\* the closure stopped reading
XmlReader_close(step) ==
    IF step.result.ok /\ step.rest # <<>>
    THEN [step EXCEPT !.result = Err("XmlReadError")]
    ELSE step

\* Message::decode
Message_decode(doc) ==
    LET root == XmlReader_take_named_element(doc, "msg") IN
    IF ~root.ok THEN Step(root, "none", 0, doc.children)
    ELSE LET msg_type == Message_decode_attributes(XmlReader_attributes(doc)) IN
    IF ~msg_type.ok THEN Step(msg_type, "none", 0, doc.children)
    ELSE XmlReader_close(Message_decode_type(msg_type.val, doc.children))

QueryMessage_encode_vec(q) == Payload_encode_vec(q.payload)
ReplyMessage_encode_vec(r) == Payload_encode_vec(r.payload)

\* an encode_vec that writes the type of the other variant
Message_encode_vec_wrong_type(m) ==
    LET msg_type == IF m.variant = "QueryMessage" THEN "reply" ELSE "query"
        a == << <<"xmlns", NS>>, <<"version", VERSION>>, <<"type", msg_type>> >>
    IN Document("msg", a,
                IF m.variant = "ReplyMessage"
                THEN ReplyMessage_encode_vec(m.inner)
                ELSE QueryMessage_encode_vec(m.inner))

\* Message::encode_vec
Message_encode_vec(m) ==
    LET msg_type == IF m.variant = "QueryMessage" THEN "query" ELSE "reply"
        a == << <<"xmlns", NS>>, <<"version", VERSION>>, <<"type", msg_type>> >>
    IN Document("msg", a,
                IF m.variant = "ReplyMessage"
                THEN ReplyMessage_encode_vec(m.inner)
                ELSE QueryMessage_encode_vec(m.inner))

----------------------------------------------------------------------------
(* Documents and messages handed to the envelope codec.                    *)

Tags == {"list", "publish", "withdraw", "success", "report_error", "other"}

AttrPool == {<<"xmlns", NS>>, <<"version", "4">>, <<"version", "3">>,
             <<"type", "query">>, <<"type", "reply">>, <<"type", "other">>,
             <<"extra", "x">>}
AttrNames == {a[1] : a \in AttrPool}

\* every list of attributes with distinct names, in every order
AttrLists ==
    {s \in SeqsUpTo(AttrPool, Cardinality(AttrNames)) :
        \A i, j \in 1..Len(s) : i # j => s[i][1] # s[j][1]}

Documents ==
    {Document("msg", a, c) : a \in AttrLists, c \in SeqsUpTo(Tags, MaxChildren)}
    \cup {Document("other", << <<"version", "4">>, <<"type", "query">> >>, c) :
            c \in SeqsUpTo(Tags, 1)}

Payloads(type) ==
    {[type |-> type, elements |-> e] :
        e \in {x \in SeqsUpTo(PayloadTags(type), MaxChildren) :
                /\ x # <<>>
                /\ PayloadRepeats(type) \/ Len(x) = 1}}

Messages ==
    {[variant |-> "QueryMessage", inner |-> [variant |-> t, payload |-> p]] :
        t \in {"PublishQuery"}, p \in Payloads("PublishQuery")}
    \cup {[variant |-> "QueryMessage",
           inner |-> [variant |-> t, payload |-> p]] :
        t \in {"ListQuery"}, p \in Payloads("ListQuery")}
    \cup {[variant |-> "ReplyMessage",
           inner |-> [variant |-> t, payload |-> p]] :
        t \in {"SuccessReply"}, p \in Payloads("SuccessReply")}
    \cup {[variant |-> "ReplyMessage",
           inner |-> [variant |-> t, payload |-> p]] :
        t \in {"ListReply"}, p \in Payloads("ListReply")}
    \cup {[variant |-> "ReplyMessage",
           inner |-> [variant |-> t, payload |-> p]] :
        t \in {"ErrorReply"}, p \in Payloads("ErrorReply")}

----------------------------------------------------------------------------
(* The envelope operations as actions.                                     *)

\* a peer's document arrives
Receive ==
    /\ wire = NoVal
    /\ \E doc \in Documents : wire' = doc
    /\ UNCHANGED <<sent, decoded, reenc, uriVars>>

\* Message::encode_vec of a message of the caller
Encode ==
    /\ wire = NoVal
    /\ \E m \in Messages :
        /\ sent' = m
        /\ wire' = Message_encode_vec(m)
    /\ UNCHANGED <<decoded, reenc, uriVars>>

\* Message::decode of the document
Decode ==
    /\ wire # NoVal
    /\ decoded = NoVal
    /\ decoded' = Message_decode(wire)
    /\ UNCHANGED <<wire, sent, reenc, uriVars>>

\* Message::encode_vec of the decoded message (tests::assert_re_encode_equals)
ReEncode ==
    /\ decoded # NoVal
    /\ decoded.result.ok
    /\ reenc = NoVal
    /\ reenc' = Message_encode_vec(decoded.result.val)
    /\ UNCHANGED <<wire, sent, decoded, uriVars>>

MsgNext ==
    \/ Receive
    \/ Encode
    \/ Decode
    \/ ReEncode

MsgSpec == Init /\ [][MsgNext]_vars

----------------------------------------------------------------------------
(* Properties of the URI family.                                           *)

Lower(s) == [i \in 1..Len(s) |-> to_ascii_lowercase(s[i])]
IsPrefix(p, s) == Len(p) <= Len(s) /\ \A i \in 1..Len(p) : p[i] = s[i]
CountOf(s, ch) == Cardinality({i \in 1..Len(s) : s[i] = ch})
Outcome(r) == IF r.ok THEN "ok" ELSE r.err

\* the input is ASCII-safe, starts with the rsync prefix and has at least two
\* '/' after the prefix
C1_Applies(input) ==
    /\ is_uri_ascii(input)
    /\ Len(input) >= 8
    /\ Lower(SubSeq(input, 1, 8)) = PrefixRsync
    /\ CountOf(SubSeq(input, 9, Len(input)), Slash) >= 2

\* all bytes after the second '/' that follows the prefix
C1_Path(input) ==
    LET slashes == {i \in 9..Len(input) : input[i] = Slash}
        second == CHOOSE i \in slashes :
                    Cardinality({j \in slashes : j < i}) = 1
    IN SubSeq(input, second + 1, Len(input))

\* the outcome the claim assigns to a path
C1_Expected(path) ==
    LET segs == Split(path, Slash)
        IsDot(i) == segs[i] \in {<<Dot>>, <<Dot, Dot>>}
        Empty(i) == segs[i] = <<>>
        BeforeFirstEmpty(i) == \A j \in 1..i : ~Empty(j)
    IN  IF \E i \in 1..Len(segs) : IsDot(i) /\ BeforeFirstEmpty(i)
        THEN "DotSegments"
        ELSE IF \E i \in 1..(Len(segs) - 1) : Empty(i)
        THEN "EmptySegments"
        ELSE "ok"

\* the outcomes tests::rsync_check_uri asserts
C1_TestOutcome(path) ==
    CASE path = <<102, 111, 111, 47, 98, 97, 114>> -> "ok"
      [] path = <<102, 111, 111, 47, 98, 97, 114, 47>> -> "ok"
      [] path = <<102, 111, 111, 47, 46, 46, 47, 98, 97, 114, 47>> -> "DotSegments"
      [] path = <<102, 111, 111, 47, 46, 47, 98, 97, 114, 47>> -> "DotSegments"
      [] path = <<102, 111, 111, 47, 98, 97, 114, 47, 46, 46>> -> "DotSegments"
      [] path = <<102, 111, 111, 47, 98, 97, 114, 47, 46, 46, 47>> -> "DotSegments"
      [] path = <<102, 111, 111, 47, 47, 98, 97, 114, 47>> -> "EmptySegments"
      [] path = <<47, 102, 111, 111, 47, 98, 97, 114, 47>> -> "EmptySegments"

\* C1: Rsync::from_bytes on an ASCII-safe input with the rsync prefix and two
\* '/' after it fails with DotSegments if a "." or ".." segment of the path
\* comes before the first empty segment, else with EmptySegments if an empty
\* segment is followed by a further segment, and otherwise succeeds; the
\* paths of the tests have the outcomes the tests state.
C1_CheckPathOutcome ==
    (last.op = "Rsync::from_bytes" /\ C1_Applies(last.arg)) =>
        /\ Outcome(last.ret) = C1_Expected(C1_Path(last.arg))
        /\ last.ret.ok => last.ret.val.path = C1_Path(last.arg)
        /\ C1_Path(last.arg) \in TestPaths =>
                Outcome(last.ret) = C1_TestOutcome(C1_Path(last.arg))

\* a path with a dot segment behind an empty one is rejected for the empty one
C1_Witness ==
    /\ last.op = "Rsync::from_bytes"
    /\ C1_Applies(last.arg)
    /\ \E i \in 1..Len(Split(C1_Path(last.arg), Slash)) :
            Split(C1_Path(last.arg), Slash)[i] = <<Dot, Dot>>
    /\ last.ret = Err("EmptySegments")

Errors == {"BadUri", "BadScheme", "NotAscii", "DotSegments", "EmptySegments"}

\* the scheme prefix a parser asks for
C11_Prefix(op) ==
    CASE op = "Rsync::from_bytes" -> PrefixRsync
      [] op = "Https::from_bytes" -> PrefixHttps
      [] op = "Ipns::from_bytes" -> PrefixIpns

C11_HasPrefix(input, prefix) ==
    /\ Len(input) >= Len(prefix)
    /\ Lower(SubSeq(input, 1, Len(prefix))) = prefix

C11_Safe(input) ==
    \A i \in 1..Len(input) :
        /\ input[i] \in 33..126
        /\ input[i] \notin {34, 35, 60, 62, 63, 91, 92, 93, 94, 96, 123, 124, 125}

\* C11: each of the three from_bytes parsers returns NotAscii for every input
\* with a byte that is not ASCII-safe, whatever else is wrong with the input;
\* returns BadScheme for every ASCII-safe input that does not start, ignoring
\* case, with the parser's own prefix; and always returns a value or one of
\* the five errors, never a panic.
C11_ParserPrecedence ==
    last.op \in {"Rsync::from_bytes", "Https::from_bytes", "Ipns::from_bytes"} =>
        /\ ~C11_Safe(last.arg) => last.ret = Err("NotAscii")
        /\ (C11_Safe(last.arg) /\ ~C11_HasPrefix(last.arg, C11_Prefix(last.op)))
                => last.ret = Err("BadScheme")
        /\ last.ret.ok \/ last.ret.err \in Errors

\* an rsync input with a ".." segment, an empty segment and a SPACE is NotAscii
C11_Witness ==
    /\ last.op = "Rsync::from_bytes"
    /\ C11_HasPrefix(last.arg, PrefixRsync)
    /\ \E i \in 1..Len(last.arg) : last.arg[i] = Space
    /\ \E i \in 1..(Len(last.arg) - 3) :
            SubSeq(last.arg, i, i + 3) = <<Slash, Dot, Dot, Slash>>
    /\ last.ret = Err("NotAscii")

\* the positions of the '/' in the input behind the 8 bytes of the prefix
C12_Slashes(input) == {i \in 9..Len(input) : input[i] = Slash}

\* the k-th of these positions
C12_Slash(input, k) ==
    CHOOSE i \in C12_Slashes(input) :
        Cardinality({j \in C12_Slashes(input) : j < i}) = k - 1

\* C12: Rsync::from_bytes on an ASCII-safe input with the rsync prefix returns
\* BadUri iff fewer than two '/' follow the prefix; with two or more, the only
\* errors left are DotSegments and EmptySegments, each for a path that has
\* such a segment, and a value has as authority the bytes between the prefix
\* and the first '/', as module the bytes between the first and the second
\* '/', and as path all bytes after the second '/'.
C12_Structure ==
    (/\ last.op = "Rsync::from_bytes"
     /\ C11_Safe(last.arg)
     /\ C11_HasPrefix(last.arg, PrefixRsync)) =>
        LET input == last.arg
            n == Cardinality(C12_Slashes(input))
            first == C12_Slash(input, 1)
            second == C12_Slash(input, 2)
            path == SubSeq(input, second + 1, Len(input))
            segs == Split(path, Slash)
        IN  /\ last.ret = Err("BadUri") <=> n < 2
            /\ n >= 2 =>
                /\ last.ret.ok \/ last.ret.err \in {"DotSegments", "EmptySegments"}
                /\ last.ret = Err("DotSegments") =>
                        \E i \in 1..Len(segs) : segs[i] \in {<<Dot>>, <<Dot, Dot>>}
                /\ last.ret = Err("EmptySegments") =>
                        \E i \in 1..Len(segs) : segs[i] = <<>>
                /\ last.ret.ok =>
                    /\ last.ret.val.module.authority = SubSeq(input, 9, first - 1)
                    /\ last.ret.val.module.module
                            = SubSeq(input, first + 1, second - 1)
                    /\ last.ret.val.path = path

\* an input with an empty authority and an empty module is accepted
C12_Witness ==
    /\ last.op = "Rsync::from_bytes"
    /\ C11_HasPrefix(last.arg, PrefixRsync)
    /\ last.ret.ok
    /\ last.ret.val.module.authority = <<>>
    /\ last.ret.val.module.module = <<>>
    /\ last.ret.val.path # <<>>

\* a path as Rsync::check_path accepts it: ASCII-safe, no "." or ".." segment,
\* no empty segment but a single last one
C13_WellFormed(path) ==
    LET segs == Split(path, Slash) IN
    /\ C11_Safe(path)
    /\ \A i \in 1..Len(segs) : segs[i] \notin {<<Dot>>, <<Dot, Dot>>}
    /\ \A i \in 1..(Len(segs) - 1) : segs[i] # <<>>

\* C13 as claimed: every Rsync value built by from_bytes, Rsync::new,
\* RsyncModule::to_uri, join with an ASCII-safe suffix and parent has a path
\* that is ASCII-safe, has no "." or ".." segment and no empty segment other
\* than a single trailing one.
C13_PathInvariant ==
    cur.kind = "Rsync" => C13_WellFormed(cur.path)

\* C14 as claimed: Https::join returns the text of self, a '/' if that text
\* does not end with one, and the suffix; so joining a suffix onto a base
\* without and with a trailing '/' gives equal values, both equal to the
\* value parsed from base, "/" and the suffix.
C14_HttpsJoin ==
    (last.op = "Https::join" /\ last.ret.ok) =>
        LET self == last.on
            suffix == last.arg
            sep == IF ends_with(self.uri, <<Slash>>) THEN <<>> ELSE <<Slash>>
            bare == IF ends_with(self.uri, <<Slash>>)
                    THEN SubSeq(self.uri, 1, Len(self.uri) - 1)
                    ELSE self.uri
            without == Https_from_bytes(bare)
            with == Https_from_bytes(bare \o <<Slash>>)
            whole == Https_from_bytes(bare \o <<Slash>> \o suffix)
        IN  /\ last.ret.val.uri = self.uri \o sep \o suffix
            /\ (without.ok /\ with.ok) =>
                /\ whole.ok
                /\ Https_eq(Https_join(without.val, suffix).val,
                            Https_join(with.val, suffix).val)
                /\ Https_eq(Https_join(without.val, suffix).val, whole.val)
                /\ Https_eq(Https_join(with.val, suffix).val, whole.val)

\* the position of the last '/' of a path, 0 if it has none
C15_LastSlash(path) ==
    LET slashes == {i \in 1..Len(path) : path[i] = Slash} IN
    IF slashes = {} THEN 0
    ELSE CHOOSE i \in slashes : \A j \in slashes : j <= i

\* the path without its final segment and without the '/' before it
C15_Stripped(path) == SubSeq(path, 1, C15_LastSlash(path) - 1)

\* C15 as claimed: parent returns none for the empty path and, for every
\* non-empty path, a value with the same module and the path without its
\* final segment and the '/' before it.
C15_Parent_Claimed ==
    last.op = "Rsync::parent" =>
        /\ last.ret.some <=> last.on.path # <<>>
        /\ last.ret.some =>
            /\ last.ret.val.module = last.on.module
            /\ last.ret.val.path = C15_Stripped(last.on.path)

\* C15: parent returns none when the final segment of the path (the bytes
\* after the last '/') is empty, that is for the empty path and for a path
\* that ends with '/'; for every other path it returns a value with the same
\* module and the path without its final segment and the '/' before it; the
\* value it was called on is the one the caller still holds when none is
\* returned.
C15_Parent ==
    last.op = "Rsync::parent" =>
        LET path == last.on.path
            final == SubSeq(path, C15_LastSlash(path) + 1, Len(path))
        IN  /\ last.ret.some <=> final # <<>>
            /\ last.ret.some =>
                /\ last.ret.val.kind = "Rsync"
                /\ last.ret.val.module = last.on.module
                /\ last.ret.val.path = C15_Stripped(path)
                /\ cur = last.ret.val
            /\ ~last.ret.some => cur = last.on

\* the parent of a path of two segments is its first segment
C15_Witness ==
    /\ last.op = "Rsync::parent"
    /\ C15_LastSlash(last.on.path) > 1
    /\ last.ret.some
    /\ last.ret.val.path # <<>>

\* the '/'-delimited segments of a text
C16_Segments(text) == Split(text, Slash)

\* C16 as claimed: for an Rsync value u and an Ipns value with a TA key and a
\* repo key, to_ipns_ta_path is the TA key, "/" and u.path, and
\* to_ipns_repo_path is the repo key, "/" and u.path; the result begins with
\* the key, keeps every segment of u.path and has no ".." segment that leads
\* out of the key's directory; for the values of tests::rsync_to_ipns the
\* results are "tal-key/foo/bar" and "repo-key/foo/bar".
C16_IpnsMapping ==
    (/\ last.op \in {"Rsync::to_ipns_ta_path", "Rsync::to_ipns_repo_path"}
     /\ Len(C16_Segments(last.arg.uri)) >= 3
     /\ C16_Segments(last.arg.uri)[2] # <<>>
     /\ C16_Segments(last.arg.uri)[3] # <<>>) =>
        LET key == IF last.op = "Rsync::to_ipns_ta_path"
                   THEN C16_Segments(last.arg.uri)[2]
                   ELSE C16_Segments(last.arg.uri)[3]
            path == last.on.path
        IN  /\ last.ret = Ok(key \o <<Slash>> \o path)
            /\ IsPrefix(key \o <<Slash>>, last.ret.val)
            /\ \A i \in 1..Len(C16_Segments(last.ret.val)) :
                    C16_Segments(last.ret.val)[i] # <<Dot, Dot>>

\* the 0-based offsets of the '/' at or after offset 8 of a text
C17_Slashes(uri) == {idx \in 8..(Len(uri) - 1) : uri[idx + 1] = Slash}

\* C17 as claimed: in every Https value built by from_bytes and any number of
\* joins, path_idx is the offset of the first '/' at or after offset 8, or
\* the length of the text if there is none, and so lies between 8 and the
\* length.
C17_PathIdx ==
    cur.kind = "Https" =>
        /\ 8 <= cur.path_idx /\ cur.path_idx <= Len(cur.uri)
        /\ IF C17_Slashes(cur.uri) = {}
           THEN cur.path_idx = Len(cur.uri)
           ELSE /\ cur.path_idx \in C17_Slashes(cur.uri)
                /\ \A idx \in C17_Slashes(cur.uri) : cur.path_idx <= idx

\* the k-th '/'-delimited segment of a text that has k - 1 or more '/': the
\* bytes between the (k-1)-th '/' and the k-th '/' (or the end of the text)
C18_Segment(text, k) ==
    LET slashes == {i \in 1..Len(text) : text[i] = Slash}
        Nth(n) == CHOOSE i \in slashes :
                    Cardinality({j \in slashes : j < i}) = n - 1
        from == IF k = 1 THEN 1 ELSE Nth(k - 1) + 1
        to == IF Cardinality(slashes) >= k THEN Nth(k) - 1 ELSE Len(text)
    IN  SubSeq(text, from, to)

\* C18 as claimed: on every value Ipns::from_bytes accepts,
\* get_ta_publish_key returns the 2nd and get_repo_publish_key the 3rd
\* '/'-delimited segment of the text, and neither panics.
C18_Accessors ==
    /\ last.op = "Ipns::get_ta_publish_key" =>
            /\ last.ret.ok
            /\ last.ret.val = C18_Segment(last.on.uri, 2)
    /\ last.op = "Ipns::get_repo_publish_key" =>
            /\ last.ret.ok
            /\ last.ret.val = C18_Segment(last.on.uri, 3)

\* C19 as claimed: relative_to returns a suffix only when other.path is a
\* prefix of self.path that ends at a segment boundary: the suffix is empty
\* or starts with '/', or other.path is empty or ends with '/'.
C19_RelativeToParent ==
    (last.op = "Rsync::relative_to" /\ last.ret.some) =>
        \/ last.ret.val = <<>>
        \/ last.ret.val[1] = Slash
        \/ last.arg.path = <<>>
        \/ last.arg.path[Len(last.arg.path)] = Slash

\* C4 as claimed: parsing the Display output of any Rsync, Https or Ipns value
\* built by the public operations succeeds and yields an equal value.
C4_DisplayRoundTrip ==
    last.op = "from_str" =>
        /\ last.ret.ok
        /\ Uri_eq(last.ret.val, last.on)

\* C8 as claimed: two values that compare equal feed the same bytes to the
\* hasher; RsyncModule feeds the lower-cased authority and the module, Https
\* the lower-cased bytes before path_idx and the rest, Ipns every byte
\* lower-cased.
C8_EqualValuesHashEqual ==
    /\ (last.op = "eq" /\ last.ret = TRUE) =>
            Uri_hash(last.on) = Uri_hash(last.arg)
    /\ (last.op = "hash" /\ last.on.kind = "RsyncModule") =>
            last.ret = HashU8(Lower(last.on.authority))
                        \o HashSlice(last.on.module)
    /\ (last.op = "hash" /\ last.on.kind = "Https") =>
            last.ret = HashU8(Lower(Slice(last.on.uri, 0, last.on.path_idx)))
                        \o HashSlice(Https_path(last.on))
    /\ (last.op = "hash" /\ last.on.kind = "Ipns") =>
            last.ret = HashU8(Lower(last.on.uri))

\* the two regions of an Https value, each by the value's own path_idx
C9_Authority(a) == SubSeq(a.uri, 1, a.path_idx)
C9_PathPart(a) == SubSeq(a.uri, a.path_idx + 1, Len(a.uri))

\* C9: two Https values are equal iff their bytes before path_idx are equal
\* ignoring ASCII case and their bytes from path_idx on are identical; a case
\* difference in the path makes them unequal, one in scheme or host does not;
\* the relation is reflexive, symmetric and transitive.
C9_HttpsEq ==
    (last.op = "eq" /\ last.on.kind = "Https") =>
        LET a == last.on
            b == last.arg
        IN  /\ last.ret <=> (/\ Lower(C9_Authority(a)) = Lower(C9_Authority(b))
                             /\ C9_PathPart(a) = C9_PathPart(b))
            /\ (Lower(a.uri) = Lower(b.uri) /\ C9_PathPart(a) # C9_PathPart(b))
                    => ~last.ret
            /\ Https_eq(a, a) /\ Https_eq(b, b)
            /\ Https_eq(b, a) <=> last.ret
            /\ \A c \in HttpsOthers :
                    (last.ret /\ Https_eq(b, c)) => Https_eq(a, c)

\* two Https values with a path that differ only in the case of the host are
\* equal
C9_Witness ==
    /\ last.op = "eq" /\ last.on.kind = "Https"
    /\ last.ret = TRUE
    /\ \E i \in 9..last.on.path_idx : last.on.uri[i] # last.arg.uri[i]
    /\ Https_path(last.on) # <<>>

----------------------------------------------------------------------------
(* Properties of the message envelope.                                     *)

AttrNamesOf(doc) == {doc.attrs[i][1] : i \in 1..Len(doc.attrs)}
HasAttr(doc, name) == name \in AttrNamesOf(doc)
AttrValue(doc, name) ==
    doc.attrs[CHOOSE i \in 1..Len(doc.attrs) : doc.attrs[i][1] = name][2]
\* the document carries an attribute besides version and type (the namespace
\* declaration is no attribute)
HasExtraAttr(doc) == AttrNamesOf(doc) \ {"version", "type", "xmlns"} # {}
FirstTag(doc) == IF doc.children = <<>> THEN "" ELSE doc.children[1]

Decoded == decoded # NoVal /\ wire.root = "msg"

\* the payload the claim assigns to a message type and a nested tag
C2_Table(type, tag) ==
    CASE type = "query" /\ tag = "list" -> <<"QueryMessage", "ListQuery">>
      [] type = "query" /\ tag \in {"publish", "withdraw"} ->
            <<"QueryMessage", "PublishQuery">>
      [] type = "reply" /\ tag = "success" -> <<"ReplyMessage", "SuccessReply">>
      [] type = "reply" /\ tag = "list" -> <<"ReplyMessage", "ListReply">>
      [] type = "reply" /\ tag = "report_error" ->
            <<"ReplyMessage", "ErrorReply">>
      [] OTHER -> <<"none", "none">>

\* C2: with version "4", no extra attribute and type "query" or "reply",
\* decode hands the nested elements to the payload decoder the type and the
\* first nested tag select and wraps its payload in the matching variants; any
\* other or missing first tag, and any tag of the other message type, fails
\* with ExpectedStart and no payload decoder runs.
C2_Dispatch ==
    (/\ Decoded
     /\ HasAttr(wire, "version") /\ AttrValue(wire, "version") = "4"
     /\ ~HasExtraAttr(wire)
     /\ HasAttr(wire, "type") /\ AttrValue(wire, "type") \in {"query", "reply"})
    =>  LET type == AttrValue(wire, "type")
            want == C2_Table(type, FirstTag(wire))
            res == decoded.result
        IN  /\ want[1] = "none" =>
                    /\ res = Err("ExpectedStart")
                    /\ decoded.decoder = "none"
            /\ want[1] # "none" =>
                    /\ decoded.decoder = want[2]
                    /\ res.ok \/ res = Err("XmlReadError")
                    /\ res.ok =>
                        /\ res.val.variant = want[1]
                        /\ res.val.inner.variant = want[2]
                        /\ res.val.inner.payload.elements = wire.children
                    /\ res.ok <=> decoded.rest = <<>>
            /\ (type = "reply" /\ FirstTag(wire) \in {"publish", "withdraw"})
                    => ~res.ok
            /\ (type = "query" /\ FirstTag(wire) \in {"success", "report_error"})
                    => ~res.ok

\* a query that starts with a withdraw element is a publish query
C2_Witness ==
    /\ Decoded
    /\ HasAttr(wire, "type") /\ AttrValue(wire, "type") = "query"
    /\ FirstTag(wire) = "withdraw"
    /\ decoded.result.ok
    /\ decoded.result.val.inner.variant = "PublishQuery"

\* the attributes Message::encode_vec writes, in order
C3_CanonicalAttrs(type) ==
    << <<"xmlns", NS>>, <<"version", "4">>, <<"type", type>> >>
C3_Canonical(doc) ==
    doc.root = "msg"
    /\ doc.attrs \in {C3_CanonicalAttrs("query"), C3_CanonicalAttrs("reply")}

C5_InvalidVersion ==
    (/\ Decoded
     /\ HasAttr(wire, "version") /\ AttrValue(wire, "version") # "4")
    =>  /\ decoded.result = Err("InvalidVersion")
        /\ decoded.decoder = "none"
        /\ decoded.read = 0

\* a wrong version next to an extra attribute, no type, and a valid element
C5_Witness ==
    /\ Decoded
    /\ HasAttr(wire, "version") /\ AttrValue(wire, "version") # "4"
    /\ HasExtraAttr(wire) /\ ~HasAttr(wire, "type")
    /\ FirstTag(wire) = "list"
    /\ decoded.result = Err("InvalidVersion")

\* C6 as claimed: with version "4", a type that is neither "query" nor
\* "reply" fails with UnknownMessageType and no nested element is read.
C6_UnknownType_Claimed ==
    (/\ Decoded
     /\ HasAttr(wire, "version") /\ AttrValue(wire, "version") = "4"
     /\ HasAttr(wire, "type") /\ AttrValue(wire, "type") \notin {"query", "reply"})
    =>  /\ decoded.result = Err("UnknownMessageType")
        /\ decoded.read = 0

\* C6 amended: with version "4" and no attribute besides version and type, a
\* type that is neither "query" nor "reply" fails with UnknownMessageType and
\* no nested element is read; with a further attribute the attribute-usage
\* error comes first.
C6_UnknownType ==
    (/\ Decoded
     /\ HasAttr(wire, "version") /\ AttrValue(wire, "version") = "4"
     /\ HasAttr(wire, "type") /\ AttrValue(wire, "type") \notin {"query", "reply"})
    =>  /\ decoded.result =
                IF HasExtraAttr(wire) THEN Err("XmlAttributesError")
                ELSE Err("UnknownMessageType")
        /\ decoded.read = 0
        /\ decoded.decoder = "none"

\* an unknown type in front of valid nested elements
C6_Witness ==
    /\ Decoded
    /\ HasAttr(wire, "type") /\ AttrValue(wire, "type") = "other"
    /\ ~HasExtraAttr(wire)
    /\ FirstTag(wire) = "publish"
    /\ decoded.result = Err("UnknownMessageType")

\* C7 as claimed: a root element with an attribute besides version and type
\* fails with the attribute-usage error and no payload decoder is invoked.
C7_ExtraAttribute_Claimed ==
    (Decoded /\ HasExtraAttr(wire))
    =>  /\ decoded.result = Err("XmlAttributesError")
        /\ decoded.decoder = "none"

\* C7 amended: a root element with an attribute besides version and type
\* fails with the attribute-usage error, unless its version attribute is
\* present and not "4", which fails with InvalidVersion first; in both cases
\* no payload decoder is invoked.
C7_ExtraAttribute ==
    (Decoded /\ HasExtraAttr(wire))
    =>  /\ decoded.result =
                IF HasAttr(wire, "version") /\ AttrValue(wire, "version") # "4"
                THEN Err("InvalidVersion")
                ELSE Err("XmlAttributesError")
        /\ decoded.decoder = "none"
        /\ decoded.read = 0

\* an extra attribute on an otherwise valid query
C7_Witness ==
    /\ Decoded
    /\ HasExtraAttr(wire)
    /\ HasAttr(wire, "version") /\ AttrValue(wire, "version") = "4"
    /\ HasAttr(wire, "type") /\ AttrValue(wire, "type") = "query"
    /\ wire.children = <<"list">>
    /\ decoded.result = Err("XmlAttributesError")

=============================================================================
